---- MODULE Spec2Model ----
(***************************************************************************)
(* OFAC name matching engine (backend/nlp_utils.py) and the in-memory      *)
(* state of the monitor (backend/app.py).                                  *)
(*                                                                         *)
(* Strings are sequences of characters; a character is a one-symbol        *)
(* string.  Accented letters and combining marks carry symbolic names      *)
(* ("a_acute", "comb_acute", ...).                                         *)
(***************************************************************************)
EXTENDS Integers, Sequences, FiniteSets, TLC

(***************************************************************************)
(* State                                                                   *)
(***************************************************************************)
\* the reference list and the name index in use (STATE["ofac_entries"],
\* STATE["ofac_index"]), and the last lookup made on it with its result
VARIABLES ofac_entries, ofac_index, pc, call, result

\* a call of dedupe_by_core and a second call on its output
VARIABLES dd_pc, dd_matches, dd_top_k, dd_out, dd_again

\* the running service: State is the STATE dict of app.py (STATE is a reserved
\* word here), heap holds the index objects it has
\* built (heap[r] is the object behind reference r), then the refresh_ofac job
\* (r_pc, r_local, refreshes) and one reader of the index (l_pc, l_local)
VARIABLES State, heap, r_pc, r_local, refreshes, l_pc, l_local

\* the refresh_mentions job (m_pc, m_local; runs counts its runs and serves as
\* the clock read at line 102)
VARIABLES m_pc, m_local, runs

(***************************************************************************)
(* Generic helpers                                                         *)
(***************************************************************************)
Range(s) == {s[i] : i \in 1..Len(s)}

Max(a, b) == IF a >= b THEN a ELSE b

RECURSIVE Flatten(_)
Flatten(ss) == IF ss = <<>> THEN <<>> ELSE Head(ss) \o Flatten(Tail(ss))

RECURSIVE SelectSeqOf(_, _)
\* the subsequence of s at the positions in keep, in order
SelectSeqOf(s, keep) ==
    IF s = <<>> THEN <<>>
    ELSE LET rest == SelectSeqOf(Tail(s), {i - 1 : i \in keep \ {1}})
         IN IF 1 \in keep THEN <<Head(s)>> \o rest ELSE rest

\* lexicographic order of character strings, by the position of a character
\* in the code-point order of the characters that can occur in a canonical name
CodeOrder == <<" ", "A", "B", "C", "D", "E", "F", "G", "H", "I", "J", "K", "L", "M",
               "N", "O", "P", "Q", "R", "S", "T", "U", "V", "W", "X", "Y", "Z", "N_tilde">>

CodePoint(ch) == CHOOSE i \in 1..Len(CodeOrder) : CodeOrder[i] = ch

RECURSIVE StrLess(_, _)
StrLess(a, b) ==
    IF b = <<>> THEN FALSE
    ELSE IF a = <<>> THEN TRUE
    ELSE IF Head(a) = Head(b) THEN StrLess(Tail(a), Tail(b))
    ELSE CodePoint(Head(a)) < CodePoint(Head(b))

(***************************************************************************)
(* Normalisation (nlp_utils.py, lines 8-36)                                *)
(***************************************************************************)
_ENTITY_STOPWORDS == {
    <<"C","O","M","P","A","N","Y">>, <<"C","O">>, <<"C","O","R","P">>,
    <<"C","O","R","P","O","R","A","T","I","O","N">>, <<"I","N","C">>,
    <<"I","N","C","O","R","P","O","R","A","T","E","D">>, <<"L","L","C">>, <<"L","T","D">>,
    <<"L","I","M","I","T","E","D">>, <<"S">>, <<"A">>, <<"S","A">>, <<"S","A","S">>,
    <<"S",".","A">>, <<"S",".","A",".">>, <<"S"," ","A">>, <<"A","G">>, <<"G","M","B","H">>,
    <<"B","V">>, <<"N","V">>, <<"S","P","A">>, <<"S","R","L">>, <<"S","R","O">>,
    <<"B","A","N","K">>, <<"B","A","N","C","O">>, <<"T","R","U","S","T">>,
    <<"H","O","L","D","I","N","G","S">>, <<"H","O","L","D","I","N","G">>,
    <<"G","R","O","U","P">>, <<"G","R","U","P","O">>, <<"F","U","N","D">>,
    <<"F","O","U","N","D","A","T","I","O","N">> }

LowerLetters == <<"a", "b", "c", "d", "e", "f", "g", "h", "i", "j", "k", "l", "m",
                  "n", "o", "p", "q", "r", "s", "t", "u", "v", "w", "x", "y", "z">>

UpperLetters == <<"A", "B", "C", "D", "E", "F", "G", "H", "I", "J", "K", "L", "M",
                  "N", "O", "P", "Q", "R", "S", "T", "U", "V", "W", "X", "Y", "Z">>

\* str.upper(), one character at a time
UpperChar(ch) ==
    IF \E i \in 1..26 : LowerLetters[i] = ch
    THEN UpperLetters[CHOOSE i \in 1..26 : LowerLetters[i] = ch]
    ELSE CASE ch = "a_acute" -> "A_acute"
           [] ch = "o_acute" -> "O_acute"
           [] ch = "n_tilde" -> "N_tilde"
           [] OTHER -> ch

\* unicodedata.normalize("NFKD", ch): the canonical decomposition
NFKD(ch) ==
    CASE ch = "A_acute" -> <<"A", "comb_acute">>
      [] ch = "a_acute" -> <<"a", "comb_acute">>
      [] ch = "O_acute" -> <<"O", "comb_acute">>
      [] ch = "o_acute" -> <<"o", "comb_acute">>
      [] ch = "N_tilde" -> <<"N", "comb_tilde">>
      [] ch = "n_tilde" -> <<"n", "comb_tilde">>
      [] OTHER -> <<ch>>

\* unicodedata.combining(ch) != 0
Combining(ch) == ch \in {"comb_acute", "comb_tilde"}

_strip_accents(s) ==
    LET d == Flatten([i \in 1..Len(s) |-> NFKD(s[i])])
    IN SelectSeq(d, LAMBDA ch : ~Combining(ch))

\* re.sub(r"[^A-ZÑ ]", " ", s)
KeepLetters(s) ==
    [i \in 1..Len(s) |->
        IF s[i] \in Range(UpperLetters) \cup {"N_tilde", " "} THEN s[i] ELSE " "]

\* re.sub(r"\s+", " ", s).strip(), on a string whose only whitespace is " "
CollapseSpaces(s) ==
    LET keep == {i \in 1..Len(s) :
                    \/ s[i] # " "
                    \/ /\ i > 1
                       /\ s[i - 1] # " "
                       /\ \E j \in (i + 1)..Len(s) : s[j] # " "}
    IN SelectSeqOf(s, keep)

normalize_name(s) ==
    CollapseSpaces(KeepLetters(_strip_accents([i \in 1..Len(s) |-> UpperChar(s[i])])))

RECURSIVE Split(_, _)
\* str.split(" "): cur is the piece being read
Split(s, cur) ==
    IF s = <<>> THEN <<cur>>
    ELSE IF Head(s) = " " THEN <<cur>> \o Split(Tail(s), <<>>)
    ELSE Split(Tail(s), Append(cur, Head(s)))

tokenize_name(norm) == SelectSeq(Split(norm, <<>>), LAMBDA t : Len(t) >= 2)

looks_like_entity(tokens) ==
    IF tokens = <<>> THEN FALSE
    ELSE Cardinality({i \in 1..Len(tokens) : tokens[i] \in _ENTITY_STOPWORDS}) >= 1

(***************************************************************************)
(* Python values                                                           *)
(***************************************************************************)
None == [kind |-> "None"]

EmptyDict == [k \in {} |-> k]

\* d.get(key, default) or default.  Every default used is the empty value of
\* the stored type, so "or default" replaces an empty value by an equal one.
DictGet(d, key, default) == IF key \in DOMAIN d THEN d[key] ELSE default

\* a plausible slip: mp[norm] = e, the last occurrence wins
SetDefaultLastWins(d, key, value) == (key :> value) @@ d

\* d.setdefault(key, value), returning the dict
SetDefault(d, key, value) == IF key \in DOMAIN d THEN d ELSE (key :> value) @@ d

RECURSIVE SortedSeq(_)
\* list(pool): a set of small non-negative ints is enumerated in increasing order
SortedSeq(S) ==
    IF S = {} THEN <<>>
    ELSE LET m == CHOOSE x \in S : \A y \in S : x <= y
         IN <<m>> \o SortedSeq(S \ {m})

(***************************************************************************)
(* Reference index (nlp_utils.py, lines 41-84)                             *)
(***************************************************************************)
\* the accumulators of build_ofac_name_index before the loop
EmptyIndex == [items |-> <<>>, token_to_ids |-> EmptyDict, names |-> <<>>, map |-> EmptyDict]

\* a plausible slip: the length test left out, every token gets a posting
PostingTokensAll(toks) == Range(toks)

\* "for t in set(toks): if len(t) < 3: continue"
PostingTokens(toks) == {t \in Range(toks) : Len(t) >= 3}

\* one iteration of the loop over ofac_entries; ids are 0-based, idx = len(items)
BuildEntry(acc, e) ==
    LET norm == normalize_name(e.name)
        toks == tokenize_name(norm)
        idx  == Len(acc.items)
        long == PostingTokens(toks)
        old  == acc.token_to_ids
    IN IF norm = <<>> THEN acc
       ELSE IF toks = <<>> THEN acc
       ELSE [items |-> Append(acc.items,
                              [norm |-> norm, tokens |-> toks, token_set |-> Range(toks),
                               is_entity |-> looks_like_entity(toks), entry |-> e]),
             names |-> Append(acc.names, norm),
             map |-> SetDefault(acc.map, norm, e),
             token_to_ids |->
                 [t \in DOMAIN old \cup long |->
                     IF t \in long
                     THEN (IF t \in DOMAIN old THEN old[t] ELSE {}) \cup {idx}
                     ELSE old[t]]]

RECURSIVE BuildLoop(_, _)
BuildLoop(entries, acc) ==
    IF entries = <<>> THEN acc
    ELSE BuildLoop(Tail(entries), BuildEntry(acc, Head(entries)))

\* a plausible slip: the accumulators outlive the call (module-level or
\* default-argument containers), so a build goes on from the index in use
build_on_previous_index(entries) ==
    BuildLoop(entries, IF "items" \in DOMAIN ofac_index THEN ofac_index ELSE EmptyIndex)

build_ofac_name_index(entries) == BuildLoop(entries, EmptyIndex)

(***************************************************************************)
(* Candidate retrieval (nlp_utils.py, lines 89-124)                        *)
(***************************************************************************)
MAX_POOL_DEFAULT == 5000

RECURSIVE InsertByLen(_, _)
InsertByLen(sorted, ids) ==
    IF sorted = <<>> THEN <<ids>>
    ELSE IF Cardinality(ids) < Cardinality(Head(sorted)) THEN <<ids>> \o sorted
    ELSE <<Head(sorted)>> \o InsertByLen(Tail(sorted), ids)

RECURSIVE SortByLen(_)
\* postings.sort(key=len): stable
SortByLen(postings) ==
    IF postings = <<>> THEN <<>>
    ELSE InsertByLen(SortByLen(SubSeq(postings, 1, Len(postings) - 1)),
                     postings[Len(postings)])

RECURSIVE NarrowPool(_, _, _)
\* the loop over postings[1:], with its break
NarrowPool(pool, rest, max_pool) ==
    IF rest = <<>> THEN pool
    ELSE LET inter == pool \cap Head(rest)
             next  == IF inter # {} THEN inter ELSE pool \cup Head(rest)
         IN IF Cardinality(next) > max_pool THEN next
            ELSE NarrowPool(next, Tail(rest), max_pool)

\* lines 95-108: the posting sets of the query tokens, rarest first.
\* order: the order in which "for t in set(q_tokens)" enumerates the distinct
\* query tokens (a permutation of them; Python leaves it unspecified)
SortedPostings(index, order) ==
    LET token_to_ids == DictGet(index, "token_to_ids", EmptyDict)
        usable == SelectSeq(order, LAMBDA t : /\ Len(t) >= 3
                                             /\ t \in DOMAIN token_to_ids
                                             /\ token_to_ids[t] # {})
    IN SortByLen([i \in 1..Len(usable) |-> token_to_ids[usable[i]]])

_candidate_ids_for_query(q_tokens, index, max_pool, order) ==
    LET postings == SortedPostings(index, order)
    IN IF postings = <<>> THEN <<>>
       ELSE SortedSeq(NarrowPool(postings[1], Tail(postings), max_pool))

(***************************************************************************)
(* Composite score (nlp_utils.py, lines 165-190 and 227-241)               *)
(*                                                                         *)
(* Scores are exact rationals kept as integers in units of 1/ScoreScale    *)
(* of a point, so 0.55, 0.30, 0.15 and the Jaccard quotient of token sets  *)
(* with up to six tokens in the union are represented without rounding.    *)
(* The two rapidfuzz ratios are library results: env.wratio and env.tsr    *)
(* give, for the query of the call, the ratio against each canonical name; *)
(* identical strings score 100, and token_set_ratio is 100 when one token  *)
(* set contains the other.                                                 *)
(***************************************************************************)
ScoreScale == 20 * 60

Pts(n) == n * ScoreScale

WRatio(env, q, c_norm) == IF q = c_norm THEN 100 ELSE env.wratio[c_norm]

\* one set of whitespace-separated words contains the other
WordsNested(q, c_norm) ==
    LET a == Range(Split(q, <<>>))
        b == Range(Split(c_norm, <<>>))
    IN a \subseteq b \/ b \subseteq a

token_set_ratio(env, q, c_norm) == IF WordsNested(q, c_norm) THEN 100 ELSE env.tsr[c_norm]

\* round(float(score), 1), half to even, in units of 1/ScoreScale
Round1(score) ==
    LET tenth == ScoreScale \div 10
        t == score \div tenth
        r == score % tenth
    IN IF 2 * r > tenth \/ (2 * r = tenth /\ t % 2 = 1) THEN (t + 1) * tenth ELSE t * tenth

Overlap(q_set, it) == Cardinality(q_set \cap it.token_set)

\* a plausible slip: weights that do not add up to 1 (0.65 for 0.55)
WeightedOverUnity(s1, s2, overlap, union) ==
    (65 * s1 * ScoreScale) \div 100
    + (30 * s2 * ScoreScale) \div 100
    + (15 * 100 * overlap * ScoreScale) \div (100 * union)

\* 0.55 * s1 + 0.30 * s2 + 0.15 * j, with j = 100.0 * (overlap / union)
Weighted(s1, s2, overlap, union) ==
    (55 * s1 * ScoreScale) \div 100
    + (30 * s2 * ScoreScale) \div 100
    + (15 * 100 * overlap * ScoreScale) \div (100 * union)

\* the score of one candidate that passed the overlap rule
CompositeScore(q, q_set, q_is_entity, it, env) ==
    LET s1 == WRatio(env, q, it.norm)
        s2 == token_set_ratio(env, q, it.norm)
        union == Max(1, Cardinality(q_set \cup it.token_set))
        base == Weighted(s1, s2, Overlap(q_set, it), union)
        penalised == IF (~q_is_entity) /\ it.is_entity THEN base - Pts(8) ELSE base
    IN IF q_set \subseteq it.token_set THEN penalised + Pts(3) ELSE penalised

\* a plausible slip: one common token is enough
PassesGateOneToken(q_set, it) == ~(Overlap(q_set, it) < 1)

\* "overlap < 2: continue", and the same test again for two-token queries
PassesGate(q_set, it) ==
    /\ ~(Overlap(q_set, it) < 2)
    /\ ~(Cardinality(q_set) = 2 /\ Overlap(q_set, it) < 2)

IndexError == [kind |-> "error", exc |-> "IndexError"]

\* items[cid] raises IndexError for some candidate id
BadCandidate(cand_ids, items) == \E i \in 1..Len(cand_ids) : cand_ids[i] >= Len(items)

(***************************************************************************)
(* fuzzy_match (nlp_utils.py, lines 126-202)                               *)
(***************************************************************************)
\* a plausible slip: the comparison turned round, keeping the lowest score
BetterTurned(score, best) == best = None \/ score < best.score

\* "best is None or score > best[0]"
Better(score, best) == best = None \/ score > best.score

RECURSIVE BestLoop(_, _, _, _, _, _, _)
\* the loop over cand_ids; best is None or [score, norm, entry]
BestLoop(cand_ids, items, q, q_set, q_is_entity, env, best) ==
    IF cand_ids = <<>> THEN best
    ELSE LET it == items[Head(cand_ids) + 1]
             score == CompositeScore(q, q_set, q_is_entity, it, env)
             next ==
                 IF ~PassesGate(q_set, it) THEN best
                 ELSE IF Better(score, best)
                      THEN [score |-> score, norm |-> it.norm, entry |-> it.entry]
                      ELSE best
         IN BestLoop(Tail(cand_ids), items, q, q_set, q_is_entity, env, next)

\* lines 154-202: the candidates scored against items, and the selection
MatchOutcome(cand_ids, items, q, q_tokens, min_score, env) ==
    LET best == BestLoop(cand_ids, items, q, Range(q_tokens), looks_like_entity(q_tokens),
                         env, None)
    IN IF BadCandidate(cand_ids, items) THEN IndexError
       ELSE IF best = None THEN None
       ELSE IF best.score >= Pts(min_score)
            THEN [kind |-> "match", name |-> best.norm, score |-> Round1(best.score),
                  entry |-> best.entry]
       ELSE None

fuzzy_match(name, index, min_score, env) ==
    LET q == normalize_name(name)
        mp == DictGet(index, "map", EmptyDict)
        q_tokens == tokenize_name(q)
        cand_ids == _candidate_ids_for_query(q_tokens, index, MAX_POOL_DEFAULT, env.order)
        items == DictGet(index, "items", <<>>)
    IN IF q = <<>> THEN None
       ELSE IF q \in DOMAIN mp
            THEN [kind |-> "match", name |-> q, score |-> Pts(100), entry |-> mp[q]]
       ELSE IF Len(q_tokens) < 2 THEN None
       ELSE IF cand_ids = <<>> THEN None
       ELSE MatchOutcome(cand_ids, items, q, q_tokens, min_score, env)

(***************************************************************************)
(* fuzzy_top_matches (nlp_utils.py, lines 204-249)                         *)
(***************************************************************************)
\* a plausible slip: the comparison turned round
AtLeastTurned(score, min_score) == score <= Pts(min_score)

\* "score >= min_score"
AtLeast(score, min_score) == score >= Pts(min_score)

RECURSIVE ScoredLoop(_, _, _, _, _, _, _)
ScoredLoop(cand_ids, items, q, q_set, q_is_entity, env, min_score) ==
    IF cand_ids = <<>> THEN <<>>
    ELSE LET it == items[Head(cand_ids) + 1]
             score == CompositeScore(q, q_set, q_is_entity, it, env)
             rest == ScoredLoop(Tail(cand_ids), items, q, q_set, q_is_entity, env, min_score)
         IN IF PassesGate(q_set, it) /\ AtLeast(score, min_score)
            THEN <<[name |-> it.norm, score |-> Round1(score), entry |-> it.entry]>> \o rest
            ELSE rest

\* a plausible slip: the score not negated in the key, (x[1], x[0])
KeyLessAscending(x, y) == x.score < y.score \/ (x.score = y.score /\ StrLess(x.name, y.name))

\* the sort key (-x[1], x[0])
KeyLess(x, y) == x.score > y.score \/ (x.score = y.score /\ StrLess(x.name, y.name))

RECURSIVE InsertByKey(_, _)
InsertByKey(sorted, x) ==
    IF sorted = <<>> THEN <<x>>
    ELSE IF KeyLess(x, Head(sorted)) THEN <<x>> \o sorted
    ELSE <<Head(sorted)>> \o InsertByKey(Tail(sorted), x)

RECURSIVE SortScored(_)
\* scored.sort(key=...): stable
SortScored(scored) ==
    IF scored = <<>> THEN <<>>
    ELSE InsertByKey(SortScored(SubSeq(scored, 1, Len(scored) - 1)), scored[Len(scored)])

\* xs[:n] for n >= 0
Prefix(xs, n) == SubSeq(xs, 1, IF n < Len(xs) THEN n ELSE Len(xs))

\* a plausible slip: the sort left out, the list cut in candidate order
TopOutcomeUnsorted(cand_ids, items, q, q_tokens, top_k, min_score, env) ==
    LET scored == ScoredLoop(cand_ids, items, q, Range(q_tokens), looks_like_entity(q_tokens),
                             env, min_score)
    IN IF BadCandidate(cand_ids, items) THEN IndexError
       ELSE [kind |-> "list", items |-> Prefix(scored, Max(1, top_k))]

\* lines 220-249: the candidates scored against items, sorted and cut
TopOutcome(cand_ids, items, q, q_tokens, top_k, min_score, env) ==
    LET scored == ScoredLoop(cand_ids, items, q, Range(q_tokens), looks_like_entity(q_tokens),
                             env, min_score)
    IN IF BadCandidate(cand_ids, items) THEN IndexError
       ELSE [kind |-> "list", items |-> Prefix(SortScored(scored), Max(1, top_k))]

fuzzy_top_matches(name, index, top_k, min_score, env) ==
    LET q == normalize_name(name)
        q_tokens == tokenize_name(q)
        cand_ids == _candidate_ids_for_query(q_tokens, index, MAX_POOL_DEFAULT, env.order)
        items == DictGet(index, "items", <<>>)
    IN IF q = <<>> \/ Len(q_tokens) < 2 THEN [kind |-> "list", items |-> <<>>]
       ELSE IF cand_ids = <<>> THEN [kind |-> "list", items |-> <<>>]
       ELSE TopOutcome(cand_ids, items, q, q_tokens, top_k, min_score, env)

(***************************************************************************)
(* Deduplication (nlp_utils.py, lines 254-280)                             *)
(***************************************************************************)
core_person_key(norm_name) ==
    LET toks == tokenize_name(normalize_name(norm_name))
    IN IF Len(toks) < 2 THEN norm_name ELSE toks[1] \o <<"|">> \o toks[2]

RECURSIVE DedupeLoop(_, _, _, _)
DedupeLoop(matches, top_k, seen, out) ==
    IF matches = <<>> THEN out
    ELSE LET key == core_person_key(Head(matches).name)
         IN IF key \in seen THEN DedupeLoop(Tail(matches), top_k, seen, out)
            ELSE IF Len(out) + 1 >= Max(1, top_k) THEN Append(out, Head(matches))
            ELSE DedupeLoop(Tail(matches), top_k, seen \cup {key}, Append(out, Head(matches)))

\* a plausible slip: the "len(out) >= max(1, top_k)" test left out
dedupe_uncapped(matches, top_k) == DedupeLoop(matches, Len(matches) + 1, {}, <<>>)

\* a plausible slip: the loop starts at the second match
dedupe_from_second(matches, top_k) ==
    IF matches = <<>> THEN <<>> ELSE DedupeLoop(Tail(matches), top_k, {}, <<>>)

dedupe_by_core(matches, top_k) == DedupeLoop(matches, top_k, {}, <<>>)

(***************************************************************************)
(* Inputs                                                                  *)
(***************************************************************************)
MaxEntries == 2
MaxTopK == 2

\* raw names of reference entries, as the SDN loader hands them over
RefNames == {
    <<"a", "n", "a", " ", "r", "u", "i", "z">>,
    <<"R", "u", "i", "z", ",", " ", "A", "n", "a_acute", " ", "P", "a", "z">>,
    <<"A", "N", "A", " ", "R", "U", "I", "Z", " ", "C", "O">>,
    <<"L", "i", " ", "B", "o">>,
    <<"P", "a", "z", " ", "A", "n", "a", " ", "R", "u", "i", "z">>,
    <<"P", "A", "Z">>,
    <<"A", ".">> }

\* raw query strings: the reference names and some variants
QueryNames == (RefNames \ {<<"P", "a", "z", " ", "A", "n", "a", " ", "R", "u", "i", "z">>}) \cup {
    <<"A", "N", "a_acute", " ", " ", "r", "u", "i", "z", ".">>,
    <<"a", "n", "a", " ", "p", "a", "z">>,
    <<"A", "N", "A", " ", "a", "n", "a">>,
    <<"1", "2">> }

\* results of the rapidfuzz ratios on strings that are not identical: the
\* lowest value of their range 0..100, and a high one
SimVals == {0, 90}

\* thresholds the callers pass (app.py lines 114 and 298)
MinScores == {80, 92}

\* top_k below 1, and the largest top_k tried
TopKs == {0, MaxTopK}

RECURSIVE SeqsUpTo(_, _)
SeqsUpTo(S, n) ==
    IF n = 0 THEN {<<>>}
    ELSE LET shorter == SeqsUpTo(S, n - 1)
         IN shorter \cup {Append(x, y) : x \in {z \in shorter : Len(z) = n - 1}, y \in S}

\* the reference list: entry i of the feed has uid i
EntriesOf(names) == [i \in 1..Len(names) |-> [uid |-> i, name |-> names[i]]]

EntryLists == {EntriesOf(names) : names \in SeqsUpTo(RefNames, MaxEntries)}

Perms(S) == {p \in [1..Cardinality(S) -> S] : Range(p) = S}

\* the canonical names a call with query token set q_set computes a score for
ScoredNorms(q_set, index) ==
    LET items == DictGet(index, "items", <<>>)
    IN {items[i].norm : i \in {j \in 1..Len(items) : PassesGate(q_set, items[j])}}

\* what a lookup of name on index leaves to the interpreter and the
\* library: the enumeration order of set(q_tokens), and the ratios
Envs(name, index) ==
    LET q == normalize_name(name)
        q_set == Range(tokenize_name(q))
        D == ScoredNorms(q_set, index)
    IN {[order |-> o, wratio |-> w, tsr |-> t] :
            o \in Perms(q_set),
            w \in [D \ {q} -> SimVals],
            t \in [{c \in D : ~WordsNested(q, c)} -> SimVals]}

engineVars == <<ofac_entries, ofac_index, pc, call, result>>

dedupeVars == <<dd_pc, dd_matches, dd_top_k, dd_out, dd_again>>

appVars == <<State, heap, r_pc, r_local, refreshes, l_pc, l_local>>

mentionVars == <<m_pc, m_local, runs>>

vars == <<engineVars, dedupeVars, appVars, mentionVars>>

EngineInit ==
    /\ ofac_entries = <<>>
    /\ ofac_index = [names |-> <<>>, map |-> EmptyDict]
    /\ pc = "idle"
    /\ call = [op |-> "none"]
    /\ result = None

DedupeIdle ==
    /\ dd_pc = "idle"
    /\ dd_matches = <<>>
    /\ dd_top_k = 0
    /\ dd_out = <<>>
    /\ dd_again = <<>>

NoLocals == [op |-> "none"]

\* STATE as app.py creates it (lines 34-42), no job or request running
AppInit ==
    /\ heap = <<[names |-> <<>>, map |-> EmptyDict]>>
    /\ State = [ofac_entries |-> <<>>, ofac_meta |-> EmptyDict, ofac_index |-> 1,
                mentions |-> <<>>, seen_ids |-> {}, last_mentions_run_utc |-> "None",
                last_error |-> "None"]
    /\ r_pc = "idle"
    /\ r_local = NoLocals
    /\ refreshes = 0
    /\ l_pc = "idle"
    /\ l_local = NoLocals
    /\ m_pc = "idle"
    /\ m_local = NoLocals
    /\ runs = 0

\* STATE as app.py creates it (lines 34-42): no list loaded yet
Init == EngineInit /\ DedupeIdle /\ AppInit

\* a refresh builds the index of a new reference list and installs it
BuildIndex ==
    /\ pc = "idle"
    /\ \E entries \in EntryLists :
          /\ ofac_entries' = entries
          /\ ofac_index' = build_ofac_name_index(entries)
    /\ UNCHANGED <<pc, call, result, dedupeVars, appVars, mentionVars>>

FuzzyMatch ==
    /\ pc = "idle"
    /\ \E name \in QueryNames, min_score \in MinScores :
          \E env \in Envs(name, ofac_index) :
             /\ call' = [op |-> "fuzzy_match", name |-> name, min_score |-> min_score,
                         top_k |-> 0, env |-> env]
             /\ result' = fuzzy_match(name, ofac_index, min_score, env)
    /\ pc' = "done"
    /\ UNCHANGED <<ofac_entries, ofac_index, dedupeVars, appVars, mentionVars>>

FuzzyTopMatches ==
    /\ pc = "idle"
    /\ \E name \in QueryNames, top_k \in TopKs, min_score \in MinScores :
          \E env \in Envs(name, ofac_index) :
             /\ call' = [op |-> "fuzzy_top_matches", name |-> name,
                         min_score |-> min_score, top_k |-> top_k, env |-> env]
             /\ result' = fuzzy_top_matches(name, ofac_index, top_k, min_score, env)
    /\ pc' = "done"
    /\ UNCHANGED <<ofac_entries, ofac_index, dedupeVars, appVars, mentionVars>>

\* max_pool values of a direct call: below every pool, one, and the default
MaxPools == {0, 1, MAX_POOL_DEFAULT}

\* _candidate_ids_for_query called on the tokens of a query
Retrieve ==
    /\ pc = "idle"
    /\ \E name \in QueryNames, max_pool \in MaxPools :
          LET q_tokens == tokenize_name(normalize_name(name))
          IN \E order \in Perms(Range(q_tokens)) :
                /\ call' = [op |-> "_candidate_ids_for_query", name |-> name, min_score |-> 0,
                            top_k |-> 0, max_pool |-> max_pool, env |-> [order |-> order]]
                /\ result' = [kind |-> "ids",
                              ids |-> _candidate_ids_for_query(q_tokens, ofac_index,
                                                               max_pool, order)]
    /\ pc' = "done"
    /\ UNCHANGED <<ofac_entries, ofac_index, dedupeVars, appVars, mentionVars>>

Next == BuildIndex \/ FuzzyMatch \/ FuzzyTopMatches \/ Retrieve

Spec == Init /\ [][Next]_vars

(***************************************************************************)
(* dedupe_by_core applied to a ranked list, and again to its own output    *)
(***************************************************************************)
MaxMatches == 3

\* names of matches: canonical names, two of them with the same first two
\* tokens, a one-token name, and a name that reads like a core key
MatchNames == {
    <<"A", "N", "A", " ", "R", "U", "I", "Z">>,
    <<"A", "N", "A", " ", "R", "U", "I", "Z", " ", "C", "O">>,
    <<"R", "U", "I", "Z", " ", "A", "N", "A", " ", "P", "A", "Z">>,
    <<"P", "A", "Z">>,
    <<"A", "N", "A", "|", "R", "U", "I", "Z">> }

\* a ranked list: match i has the i-th highest score and its own entry
MatchesOf(names) ==
    [i \in 1..Len(names) |->
        [name |-> names[i], score |-> Pts(100 - i), entry |-> [uid |-> i, name |-> names[i]]]]

MatchLists == {MatchesOf(names) : names \in SeqsUpTo(MatchNames, MaxMatches)}

DedupeInit ==
    /\ EngineInit
    /\ AppInit
    /\ dd_pc = "input"
    /\ dd_matches \in MatchLists
    /\ dd_top_k \in 0..MaxTopK
    /\ dd_out = <<>>
    /\ dd_again = <<>>

DedupeOnce ==
    /\ dd_pc = "input"
    /\ dd_out' = dedupe_by_core(dd_matches, dd_top_k)
    /\ dd_pc' = "once"
    /\ UNCHANGED <<dd_matches, dd_top_k, dd_again, engineVars, appVars, mentionVars>>

DedupeAgain ==
    /\ dd_pc = "once"
    /\ dd_again' = dedupe_by_core(dd_out, dd_top_k)
    /\ dd_pc' = "twice"
    /\ UNCHANGED <<dd_matches, dd_top_k, dd_out, engineVars, appVars, mentionVars>>

DedupeNext == DedupeOnce \/ DedupeAgain

SpecDedupe == DedupeInit /\ [][DedupeNext]_vars

(***************************************************************************)
(* The service (app.py): refresh_ofac running beside a reader of the       *)
(* index.  Jobs run on scheduler threads and requests on server threads,   *)
(* so the steps of refresh_ofac interleave with the steps of a lookup.     *)
(***************************************************************************)
MaxRefreshes == 2

\* the reference lists a download can deliver
Feeds == {
    <<>>,
    EntriesOf(<<<<"a", "n", "a", " ", "r", "u", "i", "z">>>>),
    EntriesOf(<<<<"R", "u", "i", "z", ",", " ", "A", "n", "a_acute", " ", "P", "a", "z">>,
                <<"A", "N", "A", " ", "R", "U", "I", "Z", " ", "C", "O">>>>) }

\* person names found in mentions, and search strings typed by a user
AppQueries == {
    <<"a", "n", "a", " ", "r", "u", "i", "z">>,
    <<"A", "N", "A">> }

\* the limit values of /api/search_ofac tried
Limits == {1, 20}

\* refresh_ofac, line 87: the download succeeds
RefreshFetch ==
    /\ r_pc = "idle"
    /\ refreshes < MaxRefreshes
    /\ \E entries \in Feeds :
          r_local' = [entries |-> entries, meta |-> [entries |-> Len(entries)]]
    /\ r_pc' = "fetched"
    /\ refreshes' = refreshes + 1
    /\ UNCHANGED <<State, heap, l_pc, l_local, engineVars, dedupeVars, mentionVars>>

\* refresh_ofac, lines 87 and 93-95: the download raises
RefreshFails ==
    /\ r_pc = "idle"
    /\ refreshes < MaxRefreshes
    /\ State' = [State EXCEPT !.last_error = "OFAC refresh error"]
    /\ refreshes' = refreshes + 1
    /\ UNCHANGED <<heap, r_pc, r_local, l_pc, l_local, engineVars, dedupeVars, mentionVars>>

\* line 88
RefreshStoreEntries ==
    /\ r_pc = "fetched"
    /\ State' = [State EXCEPT !.ofac_entries = r_local.entries]
    /\ r_pc' = "entries_stored"
    /\ UNCHANGED <<heap, r_local, refreshes, l_pc, l_local, engineVars, dedupeVars, mentionVars>>

\* line 89
RefreshStoreMeta ==
    /\ r_pc = "entries_stored"
    /\ State' = [State EXCEPT !.ofac_meta = r_local.meta]
    /\ r_pc' = "meta_stored"
    /\ UNCHANGED <<heap, r_local, refreshes, l_pc, l_local, engineVars, dedupeVars, mentionVars>>

\* line 90, right-hand side: the new index is built as a new object
RefreshBuild ==
    /\ r_pc = "meta_stored"
    /\ heap' = Append(heap, build_ofac_name_index(r_local.entries))
    /\ r_local' = [entries |-> r_local.entries, meta |-> r_local.meta, new |-> Len(heap) + 1]
    /\ r_pc' = "built"
    /\ UNCHANGED <<State, refreshes, l_pc, l_local, engineVars, dedupeVars, mentionVars>>

\* line 90, the assignment
RefreshPublish ==
    /\ r_pc = "built"
    /\ State' = [State EXCEPT !.ofac_index = r_local.new]
    /\ r_pc' = "published"
    /\ UNCHANGED <<heap, r_local, refreshes, l_pc, l_local, engineVars, dedupeVars, mentionVars>>

\* lines 91-92
RefreshClearError ==
    /\ r_pc = "published"
    /\ State' = [State EXCEPT !.last_error = "None"]
    /\ r_pc' = "idle"
    /\ r_local' = NoLocals
    /\ UNCHANGED <<heap, refreshes, l_pc, l_local, engineVars, dedupeVars, mentionVars>>

\* a plausible slip: the lookup reads the global STATE["ofac_index"] at each
\* use instead of its own argument
LookupRefFromState == State.ofac_index

\* the index a running lookup works on: its parameter ofac_index, bound when
\* the call was made
LookupRef == l_local.ref

LookupIndex == heap[LookupRef]

\* the lookup is over: its result, and the index objects it has read
Finished(used, res) ==
    /\ l_pc' = "idle"
    /\ l_local' = [op |-> l_local.op, name |-> l_local.name, ref |-> l_local.ref,
                   reads |-> used, result |-> res]

\* refresh_mentions, line 114: fuzzy_match(p, STATE["ofac_index"], min_score=92)
\* is called; the argument is read from STATE once
MatchStart ==
    /\ l_pc = "idle"
    /\ \E name \in AppQueries :
          l_local' = [op |-> "fuzzy_match", name |-> name, ref |-> State.ofac_index,
                      reads |-> {}, min_score |-> 92]
    /\ l_pc' = "m_exact"
    /\ UNCHANGED <<State, heap, r_pc, r_local, refreshes, engineVars, dedupeVars, mentionVars>>

\* fuzzy_match, lines 134-146
MatchExact ==
    /\ l_pc = "m_exact"
    /\ LET q == normalize_name(l_local.name)
           mp == DictGet(LookupIndex, "map", EmptyDict)
           used == l_local.reads \cup {LookupRef}
       IN IF q = <<>> THEN Finished(l_local.reads, None)
          ELSE IF q \in DOMAIN mp
               THEN Finished(used, [kind |-> "match", name |-> q, score |-> Pts(100),
                                    entry |-> mp[q]])
          ELSE IF Len(tokenize_name(q)) < 2 THEN Finished(used, None)
          ELSE /\ l_pc' = "m_cand"
               /\ l_local' = [l_local EXCEPT !.reads = used]
    /\ UNCHANGED <<State, heap, r_pc, r_local, refreshes, engineVars, dedupeVars, mentionVars>>

\* fuzzy_match, lines 148-152
MatchCandidates ==
    /\ l_pc = "m_cand"
    /\ LET q_tokens == tokenize_name(normalize_name(l_local.name))
           used == l_local.reads \cup {LookupRef}
       IN \E order \in Perms(Range(q_tokens)) :
             LET cand_ids == _candidate_ids_for_query(q_tokens, LookupIndex,
                                                      MAX_POOL_DEFAULT, order)
             IN IF cand_ids = <<>> THEN Finished(used, None)
                ELSE /\ l_pc' = "m_score"
                     /\ l_local' = [op |-> l_local.op, name |-> l_local.name,
                                    ref |-> l_local.ref, reads |-> used,
                                    min_score |-> l_local.min_score, order |-> order,
                                    cand_ids |-> cand_ids]
    /\ UNCHANGED <<State, heap, r_pc, r_local, refreshes, engineVars, dedupeVars, mentionVars>>

\* fuzzy_match, lines 154-202
MatchScore ==
    /\ l_pc = "m_score"
    /\ LET q == normalize_name(l_local.name)
           used == l_local.reads \cup {LookupRef}
       IN \E env \in {e \in Envs(l_local.name, LookupIndex) : e.order = l_local.order} :
             Finished(used, MatchOutcome(l_local.cand_ids, DictGet(LookupIndex, "items", <<>>),
                                         q, tokenize_name(q), l_local.min_score, env))
    /\ UNCHANGED <<State, heap, r_pc, r_local, refreshes, engineVars, dedupeVars, mentionVars>>

\* api_search_ofac, lines 287-293: the index reference is read from STATE once
SearchStart ==
    /\ l_pc = "idle"
    /\ \E name \in AppQueries, limit \in Limits :
          l_local' = [op |-> "api_search_ofac", name |-> name, ref |-> State.ofac_index,
                      reads |-> {}, limit |-> Max(1, IF limit < 50 THEN limit ELSE 50)]
    /\ l_pc' = "s_names"
    /\ UNCHANGED <<State, heap, r_pc, r_local, refreshes, engineVars, dedupeVars, mentionVars>>

\* api_search_ofac, lines 294-295
SearchNames ==
    /\ l_pc = "s_names"
    /\ LET used == l_local.reads \cup {LookupRef}
       IN IF DictGet(LookupIndex, "names", <<>>) = <<>>
          THEN Finished(used, [kind |-> "list", items |-> <<>>])
          ELSE /\ l_pc' = "s_cand"
               /\ l_local' = [l_local EXCEPT !.reads = used]
    /\ UNCHANGED <<State, heap, r_pc, r_local, refreshes, engineVars, dedupeVars, mentionVars>>

\* fuzzy_top_matches(q, ofac_index, top_k=limit * 3, min_score=80), lines 208-218
SearchCandidates ==
    /\ l_pc = "s_cand"
    /\ LET q == normalize_name(l_local.name)
           q_tokens == tokenize_name(q)
           used == l_local.reads \cup {LookupRef}
       IN IF q = <<>> \/ Len(q_tokens) < 2
          THEN Finished(l_local.reads, [kind |-> "list", items |-> <<>>])
          ELSE \E order \in Perms(Range(q_tokens)) :
                  LET cand_ids == _candidate_ids_for_query(q_tokens, LookupIndex,
                                                           MAX_POOL_DEFAULT, order)
                  IN IF cand_ids = <<>> THEN Finished(used, [kind |-> "list", items |-> <<>>])
                     ELSE /\ l_pc' = "s_score"
                          /\ l_local' = [op |-> l_local.op, name |-> l_local.name,
                                         ref |-> l_local.ref, reads |-> used,
                                         limit |-> l_local.limit, order |-> order,
                                         cand_ids |-> cand_ids]
    /\ UNCHANGED <<State, heap, r_pc, r_local, refreshes, engineVars, dedupeVars, mentionVars>>

\* fuzzy_top_matches, lines 220-249, then api_search_ofac, lines 300-314
SearchScore ==
    /\ l_pc = "s_score"
    /\ LET q == normalize_name(l_local.name)
           used == l_local.reads \cup {LookupRef}
       IN \E env \in {e \in Envs(l_local.name, LookupIndex) : e.order = l_local.order} :
             LET matches == TopOutcome(l_local.cand_ids, DictGet(LookupIndex, "items", <<>>),
                                       q, tokenize_name(q), l_local.limit * 3, 80, env)
             IN IF matches = IndexError THEN Finished(used, IndexError)
                ELSE Finished(used, [kind |-> "list",
                                     items |-> dedupe_by_core(matches.items, l_local.limit)])
    /\ UNCHANGED <<State, heap, r_pc, r_local, refreshes, engineVars, dedupeVars, mentionVars>>

AppNext ==
    \/ RefreshFetch \/ RefreshFails \/ RefreshStoreEntries \/ RefreshStoreMeta
    \/ RefreshBuild \/ RefreshPublish \/ RefreshClearError
    \/ MatchStart \/ MatchExact \/ MatchCandidates \/ MatchScore
    \/ SearchStart \/ SearchNames \/ SearchCandidates \/ SearchScore

SpecApp == Init /\ [][AppNext]_vars

(***************************************************************************)
(* The service (app.py): refresh_mentions (lines 97-147) running beside    *)
(* refresh_ofac.  The scheduler runs one instance of a job at a time, and  *)
(* the two jobs on separate threads; the API handlers only read STATE.     *)
(***************************************************************************)
\* config.py line 8: int(os.getenv("API_RESULTS_LIMIT", "300")); the service is
\* run here with API_RESULTS_LIMIT=2 so that the cut at app.py line 140 happens
API_RESULTS_LIMIT == 2

MaxRuns == 2

\* what the NER model finds in a text (app.py lines 52-64)
extract_persons(text) ==
    CASE text = "text_1" -> <<<<"a", "n", "a", " ", "r", "u", "i", "z">>>>
      [] text = "text_2" -> <<>>
      [] text = "text_3" -> <<<<"A", "N", "A">>>>

\* a raw mention of collect_mentions: the id is a hash of its source and text
RawMention(n, text) == [id |-> n, text |-> text]

\* the lists collect_mentions can return: empty, new items, an item met in an
\* earlier run, the same item twice
Batches == {
    <<>>,
    <<RawMention(1, "text_1"), RawMention(2, "text_2")>>,
    <<RawMention(3, "text_3"), RawMention(1, "text_1")>>,
    <<RawMention(2, "text_2"), RawMention(2, "text_2")>> }

\* the locals of a run of refresh_mentions
MentionsLocals(raw, now, out, i, persons, matches) ==
    [raw |-> raw, now |-> now, out |-> out, i |-> i, persons |-> persons, matches |-> matches]

\* lines 145-147: the except branch
MentionsExcept ==
    /\ State' = [State EXCEPT !.last_error = "Mentions refresh error"]
    /\ m_pc' = "idle"
    /\ m_local' = NoLocals

\* lines 101-103
MentionsCollect ==
    /\ m_pc = "idle"
    /\ runs < MaxRuns
    /\ \E raw \in Batches : m_local' = MentionsLocals(raw, runs + 1, <<>>, 1, <<>>, <<>>)
    /\ m_pc' = "loop"
    /\ runs' = runs + 1
    /\ UNCHANGED <<State, heap, r_pc, r_local, refreshes, l_pc, l_local,
                   engineVars, dedupeVars>>

\* line 101 raises
MentionsCollectFails ==
    /\ m_pc = "idle"
    /\ runs < MaxRuns
    /\ MentionsExcept
    /\ runs' = runs + 1
    /\ UNCHANGED <<heap, r_pc, r_local, refreshes, l_pc, l_local,
                   engineVars, dedupeVars>>

\* lines 105-107: an item already seen
MentionsSkip ==
    /\ m_pc = "loop"
    /\ m_local.i <= Len(m_local.raw)
    /\ m_local.raw[m_local.i].id \in State.seen_ids
    /\ m_local' = [m_local EXCEPT !.i = @ + 1]
    /\ UNCHANGED <<State, m_pc, runs, heap, r_pc, r_local, refreshes, l_pc, l_local,
                   engineVars, dedupeVars>>

\* lines 105-110: a new item, its persons extracted
MentionsPersons ==
    /\ m_pc = "loop"
    /\ m_local.i <= Len(m_local.raw)
    /\ m_local.raw[m_local.i].id \notin State.seen_ids
    /\ m_local' = [m_local EXCEPT !.persons = extract_persons(m_local.raw[m_local.i].text),
                                  !.matches = <<>>]
    /\ m_pc' = "persons"
    /\ UNCHANGED <<State, runs, heap, r_pc, r_local, refreshes, l_pc, l_local,
                   engineVars, dedupeVars>>

\* line 109 raises (the NER model fails on the text)
MentionsItemFails ==
    /\ m_pc = "loop"
    /\ m_local.i <= Len(m_local.raw)
    /\ m_local.raw[m_local.i].id \notin State.seen_ids
    /\ MentionsExcept
    /\ UNCHANGED <<runs, heap, r_pc, r_local, refreshes, l_pc, l_local,
                   engineVars, dedupeVars>>

\* lines 113-125: the next person looked up in the index STATE holds now
MentionsMatch ==
    /\ m_pc = "persons"
    /\ m_local.persons # <<>>
    /\ LET p == Head(m_local.persons)
           index == heap[State.ofac_index]
       IN \E env \in Envs(p, index) :
             LET found == fuzzy_match(p, index, 92, env)
             IN IF found = IndexError
                THEN MentionsExcept
                ELSE /\ m_local' =
                          [m_local EXCEPT
                              !.persons = Tail(@),
                              !.matches =
                                  IF found = None THEN @
                                  ELSE Append(@, [candidate |-> p, ofac_name |-> found.name,
                                                  score |-> found.score,
                                                  uid |-> found.entry.uid])]
                     /\ UNCHANGED <<State, m_pc>>
    /\ UNCHANGED <<runs, heap, r_pc, r_local, refreshes, l_pc, l_local,
                   engineVars, dedupeVars>>

\* lines 127-136: the item goes to out and its id to seen_ids
MentionsAppend ==
    /\ m_pc = "persons"
    /\ m_local.persons = <<>>
    /\ LET item == m_local.raw[m_local.i]
           done == [id |-> item.id, text |-> item.text,
                    persons |-> extract_persons(item.text),
                    ofac_matches |-> m_local.matches,
                    has_ofac_match |-> m_local.matches # <<>>,
                    processed_utc |-> m_local.now]
       IN /\ m_local' = [m_local EXCEPT !.out = Append(@, done), !.i = @ + 1]
          /\ State' = [State EXCEPT !.seen_ids = @ \cup {item.id}]
    /\ m_pc' = "loop"
    /\ UNCHANGED <<runs, heap, r_pc, r_local, refreshes, l_pc, l_local,
                   engineVars, dedupeVars>>

\* a plausible slip: the new items put behind the stored ones
StoredBehind(out, mentions) == Prefix(mentions \o out, API_RESULTS_LIMIT)

\* line 140: (out + STATE["mentions"])[:API_RESULTS_LIMIT]
Stored(out, mentions) == Prefix(out \o mentions, API_RESULTS_LIMIT)

\* lines 138-140, after the last item
MentionsStore ==
    /\ m_pc = "loop"
    /\ m_local.i > Len(m_local.raw)
    /\ State' = IF m_local.out # <<>>
                THEN [State EXCEPT !.mentions = Stored(m_local.out, @)]
                ELSE State
    /\ m_pc' = "stored"
    /\ UNCHANGED <<m_local, runs, heap, r_pc, r_local, refreshes, l_pc, l_local,
                   engineVars, dedupeVars>>

\* line 142
MentionsStamp ==
    /\ m_pc = "stored"
    /\ State' = [State EXCEPT !.last_mentions_run_utc = m_local.now]
    /\ m_pc' = "stamped"
    /\ UNCHANGED <<m_local, runs, heap, r_pc, r_local, refreshes, l_pc, l_local,
                   engineVars, dedupeVars>>

\* lines 143-144
MentionsClearError ==
    /\ m_pc = "stamped"
    /\ State' = [State EXCEPT !.last_error = "None"]
    /\ m_pc' = "idle"
    /\ m_local' = NoLocals
    /\ UNCHANGED <<runs, heap, r_pc, r_local, refreshes, l_pc, l_local,
                   engineVars, dedupeVars>>

MentionsNext ==
    \/ RefreshFetch \/ RefreshFails \/ RefreshStoreEntries \/ RefreshStoreMeta
    \/ RefreshBuild \/ RefreshPublish \/ RefreshClearError
    \/ MentionsCollect \/ MentionsCollectFails \/ MentionsSkip \/ MentionsPersons
    \/ MentionsItemFails \/ MentionsMatch \/ MentionsAppend \/ MentionsStore
    \/ MentionsStamp \/ MentionsClearError

SpecMentions == Init /\ [][MentionsNext]_vars

(***************************************************************************)
(* Properties of the lookups                                               *)
(***************************************************************************)
\* the query of the last call as the lookups see it, and the index in use
Ctx ==
    LET q == normalize_name(call.name)
        toks == tokenize_name(q)
    IN [q |-> q, tokens |-> toks, set |-> Range(toks), is_entity |-> looks_like_entity(toks),
        items |-> DictGet(ofac_index, "items", <<>>),
        map |-> DictGet(ofac_index, "map", EmptyDict)]

IsLookup == call.op \in {"fuzzy_match", "fuzzy_top_matches"}

\* positions of the reference entries whose name normalizes to c
SameCanonical(c) == {i \in 1..Len(ofac_entries) : normalize_name(ofac_entries[i].name) = c}

FirstOf(S) == CHOOSE i \in S : \A j \in S : i <= j

ExactResult(c) ==
    /\ result.kind = "match"
    /\ result.score = Pts(100)
    /\ result.name = c
    /\ result.entry = ofac_entries[FirstOf(SameCanonical(c))]

\* C1 as stated: whenever the query of fuzzy_match normalizes to the canonical
\* form of some reference entry, whatever that form is, the result is the first
\* such entry with score exactly 100.
C1_ExactMatchAnyEntry ==
    call.op = "fuzzy_match" =>
        LET cx == Ctx IN SameCanonical(cx.q) # {} => ExactResult(cx.q)

\* C1 amended: whenever the query of fuzzy_match normalizes to the canonical
\* form c of some reference entry and c has at least one token (of two or more
\* letters), the result is the first entry in input order with canonical form
\* c, with matched name c and score exactly 100.
C1_ExactMatchIndexed ==
    call.op = "fuzzy_match" =>
        LET cx == Ctx
        IN (SameCanonical(cx.q) # {} /\ cx.tokens # <<>>) => ExactResult(cx.q)

\* an exact query, spelled unlike any reference name, on a list holding the
\* same canonical name twice, answered with the earlier entry
C1_Witness ==
    /\ call.op = "fuzzy_match"
    /\ Ctx.tokens # <<>>
    /\ Cardinality(SameCanonical(Ctx.q)) = 2
    /\ call.name \notin {ofac_entries[i].name : i \in 1..Len(ofac_entries)}
    /\ ExactResult(Ctx.q)

\* C2: a query whose canonical form has exactly one token gets None from
\* fuzzy_match and the empty list from fuzzy_top_matches, whatever the index.
C2_SingleTokenRejected ==
    (IsLookup /\ Len(Ctx.tokens) = 1)
        => IF call.op = "fuzzy_match" THEN result = None
           ELSE result = [kind |-> "list", items |-> <<>>]

\* the indexed items a returned match (name, score, entry) refers to
ItemsOfMatch(cx, m) ==
    {i \in 1..Len(cx.items) : cx.items[i].norm = m.name /\ cx.items[i].entry = m.entry}

ReturnedMatches ==
    IF result.kind = "match" THEN {result}
    ELSE IF result.kind = "list" THEN Range(result.items)
    ELSE {}

SharedTokens(cx, i) == Cardinality(cx.set \cap cx.items[i].token_set)

\* C3: every match a lookup returns, by any path, is an indexed item sharing
\* at least two tokens with the query's token set.
C3_OverlapGate ==
    IsLookup =>
        LET cx == Ctx
        IN \A m \in ReturnedMatches :
              /\ ItemsOfMatch(cx, m) # {}
              /\ \A i \in ItemsOfMatch(cx, m) : SharedTokens(cx, i) >= 2

ScoreAt(cx, i) == CompositeScore(cx.q, cx.set, cx.is_entity, cx.items[i], call.env)

\* the (canonical name, score) pairs of a full scan of the index with the
\* overlap rule, the composite score and min_score of the call
BruteForcePairs(cx) ==
    {<<cx.items[i].norm, Round1(ScoreAt(cx, i))>> :
        i \in {j \in 1..Len(cx.items) :
                  SharedTokens(cx, j) >= 2 /\ ScoreAt(cx, j) >= Pts(call.min_score)}}

ReturnedPairs == {<<m.name, m.score>> : m \in ReturnedMatches}

\* top_k is large enough not to cut the list
NotTruncating == call.top_k >= Len(DictGet(ofac_index, "items", <<>>))

\* C4 as stated: fuzzy_top_matches, when top_k does not truncate, returns
\* exactly the pairs of the brute-force scan.
C4_BlockingEqualsBruteForce ==
    (call.op = "fuzzy_top_matches" /\ NotTruncating) => ReturnedPairs = BruteForcePairs(Ctx)

\* C4 amended: every pair fuzzy_top_matches returns is a pair of the
\* brute-force scan (blocking adds nothing; it may leave out qualifying items).
C4_BlockingWithinBruteForce ==
    call.op = "fuzzy_top_matches" => ReturnedPairs \subseteq BruteForcePairs(Ctx)

\* a call whose blocking left out a qualifying item and returned another
C4_Witness ==
    /\ call.op = "fuzzy_top_matches"
    /\ NotTruncating
    /\ ReturnedPairs # {}
    /\ ReturnedPairs # BruteForcePairs(Ctx)

\* C6: raising min_score never makes fuzzy_top_matches return more results,
\* for the same query, index, top_k and library results.
C6_ThresholdMonotone ==
    call.op = "fuzzy_top_matches" =>
        \A higher \in {m \in MinScores : m > call.min_score} :
            Len(fuzzy_top_matches(call.name, ofac_index, call.top_k, higher, call.env).items)
                <= Len(result.items)

\* a call that returns fewer results under the higher threshold
C6_Witness ==
    /\ call.op = "fuzzy_top_matches"
    /\ Len(result.items) >= 2
    /\ \E higher \in MinScores :
          /\ higher > call.min_score
          /\ Len(fuzzy_top_matches(call.name, ofac_index, call.top_k, higher, call.env).items)
                < Len(result.items)

\* the retrieved candidates of the call that pass the overlap rule, as item positions
GatedCandidates(cx) ==
    LET cand_ids == _candidate_ids_for_query(cx.tokens, ofac_index, MAX_POOL_DEFAULT,
                                             call.env.order)
    IN {cand_ids[k] + 1 : k \in {n \in 1..Len(cand_ids) : SharedTokens(cx, cand_ids[n] + 1) >= 2}}

\* the result is a candidate of maximum score when that maximum reaches
\* min_score, and None otherwise
SelectsMaximum(cx) ==
    LET gated == GatedCandidates(cx)
        score == [i \in gated |-> ScoreAt(cx, i)]
        best == {i \in gated : \A j \in gated : score[j] <= score[i]}
    IN IF \E i \in best : score[i] >= Pts(call.min_score)
       THEN /\ result.kind = "match"
            /\ \E i \in best :
                  /\ result.name = cx.items[i].norm
                  /\ result.entry = cx.items[i].entry
                  /\ result.score = Round1(score[i])
       ELSE result = None

\* C8 as stated: fuzzy_match returns a match exactly when the best retrieved
\* candidate passing the overlap rule scores at least min_score, and that
\* match is such a best candidate; otherwise it returns None.  (Stated on
\* queries of two or more distinct tokens; one-token queries are the subject
\* of C2.)
C8_SelectsMaximumAlways ==
    call.op = "fuzzy_match" =>
        LET cx == Ctx IN Cardinality(cx.set) >= 2 => SelectsMaximum(cx)

\* C8 amended: the same, for every query whose canonical form is not a key of
\* the index map (the exact-match return comes first and involves no candidate).
C8_SelectsMaximumUnlessExact ==
    call.op = "fuzzy_match" =>
        LET cx == Ctx IN cx.q \notin DOMAIN cx.map => SelectsMaximum(cx)

\* a non-exact query with two gated candidates of different scores, the
\* better one returned
C8_Witness ==
    /\ call.op = "fuzzy_match"
    /\ Ctx.q \notin DOMAIN Ctx.map
    /\ \E i, j \in GatedCandidates(Ctx) : ScoreAt(Ctx, i) < ScoreAt(Ctx, j)
    /\ result.kind = "match"

Ordered(xs) ==
    \A i, j \in 1..Len(xs) :
        i < j => \/ xs[i].score > xs[j].score
                 \/ (xs[i].score = xs[j].score /\ ~StrLess(xs[j].name, xs[i].name))

\* C9 as stated: the list fuzzy_top_matches returns holds only scores of at
\* least min_score, is ordered by score descending then name ascending, and is
\* no longer than top_k, for every top_k.
C9_OrderedWithinTopK ==
    (call.op = "fuzzy_top_matches" /\ result.kind = "list") =>
        /\ \A m \in Range(result.items) : m.score >= Pts(call.min_score)
        /\ Ordered(result.items)
        /\ Len(result.items) <= call.top_k

\* C9 amended: the same with the length bound max(1, top_k): a top_k below 1
\* is taken as 1.
C9_OrderedWithinClampedTopK ==
    (call.op = "fuzzy_top_matches" /\ result.kind = "list") =>
        /\ \A m \in Range(result.items) : m.score >= Pts(call.min_score)
        /\ Ordered(result.items)
        /\ Len(result.items) <= Max(1, call.top_k)

\* a list of two results of equal score, in the order of their different names
C9_Witness ==
    /\ call.op = "fuzzy_top_matches"
    /\ Len(result.items) = 2
    /\ result.items[1].score = result.items[2].score
    /\ StrLess(result.items[1].name, result.items[2].name)

IsEmptyBuilt(index) ==
    /\ index.items = <<>>
    /\ index.names = <<>>
    /\ DOMAIN index.token_to_ids = {}
    /\ DOMAIN index.map = {}

\* C10: the index built from the empty list has empty items, token_to_ids and
\* map; on it, and on the index STATE starts with, fuzzy_match returns None and
\* fuzzy_top_matches returns [] (no exception).
C10_EmptyReferenceList ==
    ofac_entries = <<>> =>
        /\ "items" \in DOMAIN ofac_index => IsEmptyBuilt(ofac_index)
        /\ call.op = "fuzzy_match" => result = None
        /\ call.op = "fuzzy_top_matches" => result = [kind |-> "list", items |-> <<>>]

\* a two-token query answered on the index built from the empty list
C10_Witness ==
    /\ ofac_entries = <<>>
    /\ "items" \in DOMAIN ofac_index
    /\ IsLookup
    /\ Len(Ctx.tokens) >= 2
    /\ \E t \in Ctx.set : Len(t) >= 3

\* the answer the exact-match short circuit gives: the entry of the map, score 100
ShortCircuit(cx) == [name |-> cx.q, score |-> Pts(100), entry |-> cx.map[cx.q]]

\* C11: in both lookups, when the query's canonical form is a key of the index
\* map, the result is that entry with score 100: fuzzy_match returns it, and
\* fuzzy_top_matches reports it with the same score 100.  (Stated on queries
\* of two or more distinct tokens; one-token queries are the subject of C2.)
C11_ExactShortCircuitBoth ==
    IsLookup =>
        LET cx == Ctx
        IN (cx.q \in DOMAIN cx.map /\ Cardinality(cx.set) >= 2) =>
              IF call.op = "fuzzy_match"
              THEN result = [kind |-> "match"] @@ ShortCircuit(cx)
              ELSE /\ result.kind = "list"
                   /\ ShortCircuit(cx) \in Range(result.items)

\* the tokens of the indexed items
ItemTokens(items) == UNION {Range(items[i].tokens) : i \in 1..Len(items)}

\* the 0-based positions of the items holding token t
PositionsOf(items, t) == {i - 1 : i \in {j \in 1..Len(items) : t \in items[j].token_set}}

\* C12: in every index build_ofac_name_index returns, the keys of token_to_ids
\* are exactly the tokens of three or more letters of the items, and the
\* posting set of a key is exactly the set of positions of the items whose
\* token_set holds it (so every id is a position of items).
C12_InvertedIndex ==
    "items" \in DOMAIN ofac_index =>
        LET items == ofac_index.items
            token_to_ids == ofac_index.token_to_ids
        IN /\ DOMAIN token_to_ids = {t \in ItemTokens(items) : Len(t) >= 3}
           /\ \A t \in DOMAIN token_to_ids :
                 /\ token_to_ids[t] = PositionsOf(items, t)
                 /\ token_to_ids[t] \subseteq 0..(Len(items) - 1)

\* an index of two items that share a long token and hold a two-letter token
C12_Witness ==
    /\ "items" \in DOMAIN ofac_index
    /\ Len(ofac_index.items) = 2
    /\ \E t \in DOMAIN ofac_index.token_to_ids : ofac_index.token_to_ids[t] = {0, 1}
    /\ \E t \in ItemTokens(ofac_index.items) : Len(t) = 2

\* one posting set applied to the pool: the intersection, or the union when
\* the intersection is empty
Applied(pool, ids) == IF pool \cap ids # {} THEN pool \cap ids ELSE pool \cup ids

RECURSIVE PoolAfter(_, _)
\* the pool after the first k posting sets, with no cap
PoolAfter(postings, k) ==
    IF k = 1 THEN postings[1] ELSE Applied(PoolAfter(postings, k - 1), postings[k])

\* the number of posting sets applied when the fold stops as soon as the pool
\* is larger than max_pool, the initial pool included
StopsAt(postings, max_pool) ==
    LET over == {k \in 1..Len(postings) : Cardinality(PoolAfter(postings, k)) > max_pool}
    IN IF over = {} THEN Len(postings) ELSE CHOOSE k \in over : \A j \in over : k <= j

\* C13: as soon as the pool is larger than max_pool, right after its
\* initialization with the rarest posting set or after any intersection/union
\* step, no further posting set is applied and the pool is returned as it is.
C13_HardCap ==
    call.op = "_candidate_ids_for_query" =>
        LET postings == SortedPostings(ofac_index, call.env.order)
        IN postings # <<>> =>
              Range(result.ids) = PoolAfter(postings, StopsAt(postings, call.max_pool))

\* the pools the lookup of the last call can get, over the enumeration orders
\* of its query tokens
PoolsOverOrders ==
    LET cx == Ctx
        max_pool == IF call.op = "_candidate_ids_for_query" THEN call.max_pool
                    ELSE MAX_POOL_DEFAULT
    IN {Range(_candidate_ids_for_query(cx.tokens, ofac_index, max_pool, order)) :
           order \in Perms(cx.set)}

\* C14: for a fixed index and query, _candidate_ids_for_query returns the same
\* set of ids whatever the order in which the query tokens are enumerated (and
\* so however posting sets of equal size are ordered before the fold).
C14_OrderIndependent ==
    call.op \in {"fuzzy_match", "fuzzy_top_matches", "_candidate_ids_for_query"} =>
        Cardinality(PoolsOverOrders) = 1

\* the item positions the last call computed a score for: none when the
\* call returned before its loop
ScoredPositions(cx) ==
    IF ~IsLookup \/ cx.q = <<>> \/ Len(cx.tokens) < 2 THEN {}
    ELSE IF call.op = "fuzzy_match" /\ cx.q \in DOMAIN cx.map THEN {}
    ELSE GatedCandidates(cx)

\* the computed and the returned scores lie between low and 103 points, and
\* no Jaccard quotient was taken over an empty union
ScoresWithin(cx, low) ==
    /\ \A i \in ScoredPositions(cx) :
          /\ Cardinality(cx.set \cup cx.items[i].token_set) >= 1
          /\ ScoreAt(cx, i) >= Pts(low)
          /\ ScoreAt(cx, i) <= Pts(103)
    /\ \A m \in ReturnedMatches : m.score >= Pts(Max(0, low)) /\ m.score <= Pts(103)

\* C16 as stated: with s1, s2 and j in 0..100, every score computed for a
\* candidate that passed the overlap gate and every score returned lies in
\* [0, 103], and the Jaccard denominator is never 0.
C16_ScoreRangeFromZero == IsLookup => LET cx == Ctx IN ScoresWithin(cx, 0)

\* C16 amended: every computed score lies in [-8, 103] (the cross-category
\* penalty can take a low score below 0), every returned score in [0, 103],
\* and the Jaccard denominator is never 0.
C16_ScoreRangeFromPenalty == IsLookup => LET cx == Ctx IN ScoresWithin(cx, 0 - 8)

\* a person query scored below 0 against an entity candidate
C16_Witness ==
    /\ call.op = "fuzzy_top_matches"
    /\ \E i \in ScoredPositions(Ctx) :
          /\ ScoreAt(Ctx, i) < 0
          /\ Ctx.items[i].is_entity
          /\ ~Ctx.is_entity
    /\ result.kind = "list"

\* what fuzzy_match gives for the query, index, min_score and library results
\* of the last call
AsBestMatch ==
    IF call.op = "fuzzy_match" THEN result
    ELSE fuzzy_match(call.name, ofac_index, call.min_score, call.env)

\* what fuzzy_top_matches gives for them
AsTopMatches ==
    IF call.op = "fuzzy_top_matches" THEN result
    ELSE fuzzy_top_matches(call.name, ofac_index, MaxTopK, call.min_score, call.env)

\* C17: for a query whose canonical form is not a key of the index map,
\* fuzzy_match returns a match exactly when fuzzy_top_matches with the same
\* min_score returns a non-empty list, and then with the score of the first
\* element of that list.
C17_LookupsAgree ==
    IsLookup =>
        LET cx == Ctx
            best == AsBestMatch
            top == AsTopMatches
        IN cx.q \notin DOMAIN cx.map =>
              /\ best.kind \in {"match", "None"}
              /\ top.kind = "list"
              /\ (best.kind = "match") <=> (top.items # <<>>)
              /\ best.kind = "match" => best.score = top.items[1].score

\* a non-exact query for which fuzzy_match returned a match and the list of
\* fuzzy_top_matches has a second element of lower score
C17_Witness ==
    /\ call.op = "fuzzy_match"
    /\ Ctx.q \notin DOMAIN Ctx.map
    /\ result.kind = "match"
    /\ Len(AsTopMatches.items) = 2
    /\ AsTopMatches.items[2].score < result.score

(***************************************************************************)
(* Properties of dedupe_by_core                                            *)
(***************************************************************************)
\* C7: dedupe_by_core applied to its own output, with the same top_k, returns
\* that output unchanged.
C7_DedupeIdempotent == dd_pc = "twice" => dd_again = dd_out

\* a second pass over an output of two matches from which the first pass had
\* removed one
C7_Witness ==
    /\ dd_pc = "twice"
    /\ Len(dd_out) = 2
    /\ Len(dd_matches) = 3
    /\ dd_again = dd_out

\* the position in the input of an output element (entries are distinct)
InputPos(x) == CHOOSE i \in 1..Len(dd_matches) : dd_matches[i] = x

\* the output is a subsequence of the input with one element per core key,
\* the first of its key, which has the highest score of its key
DedupeShape ==
    /\ \A k \in 1..Len(dd_out) : dd_out[k] \in Range(dd_matches)
    /\ \A k, l \in 1..Len(dd_out) :
          k < l => /\ InputPos(dd_out[k]) < InputPos(dd_out[l])
                   /\ core_person_key(dd_out[k].name) # core_person_key(dd_out[l].name)
    /\ \A k \in 1..Len(dd_out) : \A i \in 1..Len(dd_matches) :
          core_person_key(dd_matches[i].name) = core_person_key(dd_out[k].name)
              => /\ InputPos(dd_out[k]) <= i
                 /\ dd_matches[i].score <= dd_out[k].score

\* C15 as stated: the output of dedupe_by_core is a subsequence of the input
\* with no two elements of the same core key, each the first (and, the input
\* being sorted by descending score, the best) of its key, and its length is
\* at most top_k.
C15_DedupeShapeWithinTopK ==
    dd_pc \in {"once", "twice"} => DedupeShape /\ Len(dd_out) <= dd_top_k

\* C15 amended: the same with the length bound max(1, top_k).
C15_DedupeShapeWithinClampedTopK ==
    dd_pc \in {"once", "twice"} => DedupeShape /\ Len(dd_out) <= Max(1, dd_top_k)

\* three matches, the second dropped for the core key of the first, the
\* third kept
C15_Witness ==
    /\ dd_pc = "once"
    /\ Len(dd_matches) = 3
    /\ dd_out = <<dd_matches[1], dd_matches[3]>>
    /\ core_person_key(dd_matches[2].name) = core_person_key(dd_matches[1].name)
    /\ dd_matches[2].name # dd_matches[1].name

(***************************************************************************)
(* Properties of the service                                               *)
(***************************************************************************)
\* a lookup that has ended, or is under way
LookupSeen == l_local.op \in {"fuzzy_match", "api_search_ofac"}

\* one lookup reads its map, postings and items from one index object
OneIndexPerLookup ==
    LookupSeen => /\ Cardinality(l_local.reads) <= 1
                  /\ l_local.reads \subseteq {l_local.ref}

\* no candidate id was used on an items list it does not belong to
NoForeignCandidate == (LookupSeen /\ l_pc = "idle") => l_local.result # IndexError

\* the reference stored in STATE changes only to a new object that is the
\* complete index of the entries this run downloaded
PublishesComplete ==
    State'.ofac_index # State.ofac_index =>
        /\ State'.ofac_index \in 1..Len(heap)
        /\ State'.ofac_index > State.ofac_index
        /\ heap[State'.ofac_index] = build_ofac_name_index(r_local.entries)

\* no index object is changed once built
NeverMutated == \A r \in 1..Len(heap) : r \in 1..Len(heap') /\ heap'[r] = heap[r]

\* C5: refresh_ofac stores in STATE["ofac_index"] only a complete new index,
\* no index object is changed after it was built, and every lookup reads its
\* map, postings and items from the single index object it was called with,
\* so no candidate id meets the items of another index.
C5_AtomicPublication ==
    /\ [](OneIndexPerLookup /\ NoForeignCandidate)
    /\ [][PublishesComplete /\ NeverMutated]_vars

\* a lookup that scored its candidates on the index it started with, after a
\* refresh had replaced that index in STATE
C5_Witness ==
    /\ LookupSeen
    /\ l_pc = "idle"
    /\ l_local.result.kind = "match"
    /\ l_local.reads = {l_local.ref}
    /\ l_local.ref # State.ofac_index
    /\ heap[l_local.ref] # heap[State.ofac_index]

\* the ids of the stored mentions
MentionIds == {State.mentions[k].id : k \in 1..Len(State.mentions)}

\* C18: every id in STATE["seen_ids"] belongs to an item some run stored in
\* STATE["mentions"]; a run that fails leaves no id marked as seen whose item
\* was never stored.  (Stated between runs and while seen_ids is no larger
\* than API_RESULTS_LIMIT, when the cap cannot have dropped a stored item.)
C18_NoMentionLost ==
    (m_pc = "idle" /\ Cardinality(State.seen_ids) <= API_RESULTS_LIMIT)
        => State.seen_ids \subseteq MentionIds

\* C19: once refresh_ofac has failed and set last_error to an OFAC refresh
\* error, last_error is cleared only by a refresh_ofac run that succeeds (the
\* step of line 91); a successful refresh_mentions run does not clear it.
C19_OfacErrorKept ==
    [][(State.last_error = "OFAC refresh error" /\ State'.last_error = "None")
          => (r_pc = "published" /\ r_pc' = "idle")]_vars

\* C20: in any interleaving with refresh_ofac, STATE["mentions"] has at most
\* API_RESULTS_LIMIT items, no two with the same id, every id of it is in
\* STATE["seen_ids"], an item has has_ofac_match exactly when its ofac_matches
\* is not empty, and the items of a later run precede those of earlier runs.
C20_MentionsStore ==
    LET mentions == State.mentions
    IN /\ Len(mentions) <= API_RESULTS_LIMIT
       /\ \A k, l \in 1..Len(mentions) :
             k < l => /\ mentions[k].id # mentions[l].id
                      /\ mentions[k].processed_utc >= mentions[l].processed_utc
       /\ MentionIds \subseteq State.seen_ids
       /\ \A k \in 1..Len(mentions) :
             mentions[k].has_ofac_match <=> (mentions[k].ofac_matches # <<>>)

\* after two runs: the store is full, the cap has dropped an item of the
\* first run, the item of the second run comes first, and one item has a match
C20_Witness ==
    /\ m_pc = "idle"
    /\ Len(State.mentions) = API_RESULTS_LIMIT
    /\ Cardinality(State.seen_ids) > API_RESULTS_LIMIT
    /\ State.mentions[1].processed_utc > State.mentions[2].processed_utc
    /\ \E k \in 1..Len(State.mentions) : State.mentions[k].has_ofac_match

====
